---- MODULE Spec2Model ----
(***************************************************************************)
(* ThreadPool (src/src/shared/ThreadPool.cpp): a fixed set of worker       *)
(* threads that execute a workload of tasks, and the thread that owns the  *)
(* pool (the caller).  Every step is one access to the shared state of the *)
(* pool, so that the interleavings of the workers with each other and with *)
(* the caller are those of the code.                                       *)
(***************************************************************************)
EXTENDS Integers, Sequences, FiniteSets, TLC

\* ------------------------------------------------------------------ bounds
MaxThreads == 2
MaxTasks == 2
MaxWorkloads == 3
\* throwing tasks the caller hands to the pool over its life
MaxBad == 1

\* ------------------------------------------------------------------ types
Strategies == {"SingleQueue", "MultiQueue", "MySQL"}
ClearModes == {"AT_NEXT_WORKLOAD", "UPPON_COMPLETION"}
ErrorHandlings == {"NONE", "IGNORE", "TERMINATE"}
Statuses == {"READY", "PROCESSING", "ERROR", "TERMINATING"}
\* a task body either returns or throws
TaskKinds == {"ok", "bad"}

VARIABLES
    strategy,       \* the template argument of start<T>()
    m_clearMode,
    m_errorHandling,
    m_size,
    m_status,
    m_workload,     \* sequence of task kinds; task index i is m_workload[i+1]
    m_dirty,
    m_active,
    m_index,
    m_errors,       \* sequence of captured exceptions
    m_result,       \* the number of the promise m_result currently holds
    promises,       \* promise number -> state of its shared state
    pc,             \* worker -> position in loop_wrapper/loop/doWork
    busy,           \* worker -> worker::busy
    it,             \* worker -> worker_mq::it, as an offset from begin()
    i,              \* worker -> index of the task claimed (local i / w)
    task,           \* worker -> kind of the task being executed
    err_p,          \* worker -> exception caught by loop_wrapper
    cpc,            \* position of the caller
    ret,            \* what the caller's last call returned
    aborted,        \* std::terminate was called
    \* history, read by the properties only
    armedLen,       \* size of the workload when the current promise was made
    failed,         \* a task has thrown
    thrown,         \* indices of the current workload whose task threw
    ran,            \* worker -> indices it finished in the current workload
    decs,           \* worker -> decrements of m_active in the current workload
    zeros,          \* times m_active reached zero in the current workload
    zwl,            \* worker -> workload whose counter its decrement zeroed
    setter,         \* promise number -> workload of the worker that resolved it
    registered,     \* worker -> mysql_thread_init calls minus mysql_thread_end
    nbad            \* throwing tasks the caller has handed to the pool

config == <<strategy, m_clearMode, m_errorHandling, m_size>>
poolv == <<m_status, m_workload, m_dirty, m_active, m_index, m_errors,
           m_result, promises>>
workerv == <<pc, busy, it, i, task, err_p>>
callerv == <<cpc, ret>>
histv == <<armedLen, failed, thrown, ran, decs, zeros, zwl, setter, registered,
          nbad>>
vars == <<config, poolv, workerv, callerv, aborted, histv>>

Workers == 0 .. (m_size - 1)
NoError == <<"none", 0, 0>>

\* ------------------------------------------------------------ construction
\* ThreadPool::ThreadPool, lines 23-27: the modes and the size are those the
\* caller passes, and no worker is active.
ThreadPool ==
    /\ m_clearMode \in ClearModes
    /\ m_errorHandling \in ErrorHandlings
    /\ m_size \in 1 .. MaxThreads
    /\ m_active = 0

\* ThreadPool::start<T> and the member initialisers of the class: the pool is
\* READY with an empty, clean workload, and each of its m_size workers has
\* its thread in loop_wrapper, not busy.
start ==
    /\ strategy \in Strategies
    /\ m_status = "READY"
    /\ m_workload = <<>>
    /\ m_dirty = FALSE
    /\ m_index = 0
    /\ m_errors = <<>>
    /\ m_result = 0
    /\ promises = [p \in 0 .. 0 |-> "pending"]
    /\ pc = [w \in Workers |-> "check"]
    /\ busy = [w \in Workers |-> FALSE]
    /\ it = [w \in Workers |-> 0]
    /\ i = [w \in Workers |-> 0]
    /\ task = [w \in Workers |-> "ok"]
    /\ err_p = [w \in Workers |-> NoError]

\* Nothing has been called yet and nothing has been observed.
NothingCalled ==
    /\ cpc = "idle"
    /\ ret = <<"none", 0>>
    /\ aborted = FALSE
    /\ armedLen = 0
    /\ failed = FALSE
    /\ thrown = {}
    /\ ran = [w \in Workers |-> <<>>]
    /\ decs = [w \in Workers |-> 0]
    /\ zeros = 0
    /\ zwl = [w \in Workers |-> 0]
    /\ setter = [p \in 0 .. 0 |-> 0]
    /\ registered = [w \in Workers |-> 0]
    /\ nbad = 0

Init ==
    /\ ThreadPool
    /\ start
    /\ NothingCalled

\* ThreadPool(MaxThreads + 1, AT_NEXT_WORKLOAD, TERMINATE) followed by
\* start<MultiQueue>: one worker more than the pools of Init.
InitTerminate ==
    /\ m_clearMode = "AT_NEXT_WORKLOAD"
    /\ m_errorHandling = "TERMINATE"
    /\ m_size = MaxThreads + 1
    /\ m_active = 0
    /\ start
    /\ strategy = "MultiQueue"
    /\ NothingCalled

\* ------------------------------------------------------------------ helpers
\* condition_variable::notify_all: every worker blocked in wait() re-evaluates
\* the predicate of waitForWork.
notify_all(p) == [w \in Workers |-> IF p[w] = "blocked" THEN "check" ELSE p[w]]

\* The throwing tasks of a workload.
Bad(wl) == Cardinality({k \in 1 .. Len(wl) : wl[k] = "bad"})

\* workload_t::empty answering false for every workload.
never_empty(wl) == FALSE

\* workload_t::empty
empty(wl) == Len(wl) = 0

\* ThreadPool::clearWorkload leaving the tasks in place.
clearWorkload_keeps_tasks == <<FALSE, m_workload>>

\* ThreadPool::clearWorkload, as the pair <<m_dirty, m_workload>> it leaves.
clearWorkload == <<FALSE, <<>>>>

\* The condition of line 42-43.
clearsAtNext == m_clearMode = "AT_NEXT_WORKLOAD" /\ m_status = "READY" /\ m_dirty

\* An exception e leaves loop(): loop_wrapper catches it, or (NONE) nothing
\* does and std::terminate ends the process.
throws(w, e) ==
    /\ err_p' = [err_p EXCEPT ![w] = e]
    /\ IF m_errorHandling = "NONE"
       THEN /\ aborted' = TRUE
            /\ pc' = [pc EXCEPT ![w] = "exited"]
       ELSE /\ pc' = [pc EXCEPT ![w] = "caught"]
            /\ UNCHANGED aborted

\* --------------------------------------------------------------- the caller
\* ThreadPool::operator<< without the test of line 101.
operator_append_unchecked(t) ==
    /\ cpc = "idle" /\ ~aborted
    /\ LET c == m_clearMode = "AT_NEXT_WORKLOAD" /\ m_dirty
           wl == IF c THEN clearWorkload[2] ELSE m_workload
       IN  /\ Len(wl) < MaxTasks
           /\ m_workload' = Append(wl, t)
           /\ m_dirty' = IF c THEN clearWorkload[1] ELSE m_dirty
           /\ ret' = <<"appended", 0>>
    /\ nbad' = nbad + Bad(<<t>>)
    /\ nbad' <= MaxBad
    /\ UNCHANGED <<config, m_status, m_active, m_index, m_errors, m_result,
                   promises, workerv, cpc, aborted, armedLen, failed, thrown,
                   ran, decs, zeros, zwl, setter, registered>>

\* ThreadPool::operator<<
operator_append(t) ==
    /\ cpc = "idle" /\ ~aborted
    /\ IF m_status = "PROCESSING" \/ m_status = "ERROR"
       THEN /\ ret' = <<"throw", 0>>
            /\ UNCHANGED <<m_workload, m_dirty>>
       ELSE LET c == m_clearMode = "AT_NEXT_WORKLOAD" /\ m_dirty
                d == IF c THEN clearWorkload[1] ELSE m_dirty
                wl == IF c THEN clearWorkload[2] ELSE m_workload
            IN  /\ Len(wl) < MaxTasks
                /\ m_workload' = Append(wl, t)
                /\ m_dirty' = d
                /\ ret' = <<"appended", 0>>
    /\ nbad' = IF m_workload' # m_workload THEN nbad + Bad(<<t>>) ELSE nbad
    /\ nbad' <= MaxBad
    /\ UNCHANGED <<config, m_status, m_active, m_index, m_errors, m_result,
                   promises, workerv, cpc, aborted, armedLen, failed, thrown,
                   ran, decs, zeros, zwl, setter, registered>>

\* ThreadPool::processWorkload(workload_t), lines 61-64 (and 70-73)
processWorkload_arg(wk) ==
    /\ cpc = "idle" /\ ~aborted
    /\ m_result < MaxWorkloads \/ m_status = "TERMINATING"
    /\ IF m_status # "READY"
       THEN /\ ret' = <<"empty", 0>>
            /\ UNCHANGED <<m_workload, m_dirty, cpc>>
       ELSE /\ m_workload' = wk
            /\ m_dirty' = FALSE
            /\ cpc' = "p42"
            /\ UNCHANGED ret
    /\ nbad' = IF cpc' = "p42" THEN nbad + Bad(wk) ELSE nbad
    /\ nbad' <= MaxBad
    /\ UNCHANGED <<config, m_status, m_active, m_index, m_errors, m_result,
                   promises, workerv, aborted, armedLen, failed, thrown,
                   ran, decs, zeros, zwl, setter, registered>>

\* ThreadPool::processWorkload(), lines 42-46
processWorkload_check ==
    /\ cpc \in {"idle", "p42"} /\ ~aborted
    /\ cpc = "idle" => (m_result < MaxWorkloads \/ m_status = "TERMINATING")
    /\ LET d == IF clearsAtNext THEN clearWorkload[1] ELSE m_dirty
           wl == IF clearsAtNext THEN clearWorkload[2] ELSE m_workload
       IN  /\ m_dirty' = d
           /\ m_workload' = wl
           /\ IF m_status # "READY" \/ empty(wl)
              THEN /\ ret' = <<"empty", 0>>
                   /\ cpc' = "idle"
              ELSE /\ m_result < MaxWorkloads
                   /\ cpc' = "p47"
                   /\ UNCHANGED ret
    /\ UNCHANGED <<config, m_status, m_active, m_index, m_errors, m_result,
                   promises, workerv, aborted, histv>>

\* ThreadPool::processWorkload(), lines 47-51.  Assigning a new promise to
\* m_result abandons the shared state of the old one: if it was never
\* resolved, its future is made ready with broken_promise.
processWorkload_arm ==
    /\ cpc = "p47" /\ ~aborted
    /\ m_result' = m_result + 1
    /\ promises' = [p \in 0 .. (m_result + 1) |->
                      IF p = m_result + 1 THEN "pending"
                      ELSE IF promises[p] = "pending" THEN "broken"
                      ELSE promises[p]]
    /\ setter' = [p \in 0 .. (m_result + 1) |->
                      IF p = m_result + 1 THEN 0 ELSE setter[p]]
    /\ m_dirty' = TRUE
    /\ m_active' = m_size
    /\ m_index' = 0
    /\ m_status' = "PROCESSING"
    /\ cpc' = "p52"
    /\ armedLen' = Len(m_workload)
    /\ thrown' = {}
    /\ ran' = [w \in Workers |-> <<>>]
    /\ decs' = [w \in Workers |-> 0]
    /\ zeros' = 0
    /\ UNCHANGED <<config, m_workload, m_errors, workerv, ret, aborted,
                   failed, zwl, registered, nbad>>

\* worker::prepare and worker_mq::prepare, for every worker
prepare ==
    /\ busy' = [w \in Workers |-> TRUE]
    /\ it' = [w \in Workers |-> IF strategy = "MultiQueue" THEN w ELSE it[w]]

\* ThreadPool::processWorkload(), lines 52-56, under the exclusive lock
processWorkload_wake ==
    /\ cpc = "p52" /\ ~aborted
    /\ prepare
    /\ pc' = notify_all(pc)
    /\ ret' = <<"handle", m_result>>
    /\ cpc' = "idle"
    /\ UNCHANGED <<config, poolv, i, task, err_p, aborted, histv>>

\* ThreadPool::~ThreadPool, lines 31-33, under the exclusive lock
destructor ==
    /\ cpc = "idle" /\ ~aborted
    /\ m_status' = "TERMINATING"
    /\ pc' = notify_all(pc)
    /\ cpc' = "joining"
    /\ UNCHANGED <<config, m_workload, m_dirty, m_active, m_index, m_errors,
                   m_result, promises, busy, it, i, task, err_p, ret, aborted,
                   histv>>

\* worker::~worker for every worker: thread.join() returns once the thread
\* has left loop_wrapper.  The members of the pool, m_result among them, are
\* destroyed with it.
join ==
    /\ cpc = "joining" /\ ~aborted
    /\ \A w \in Workers : pc[w] = "exited"
    /\ cpc' = "destroyed"
    /\ promises' = [p \in DOMAIN promises |->
                      IF promises[p] = "pending" THEN "broken" ELSE promises[p]]
    /\ UNCHANGED <<config, m_status, m_workload, m_dirty, m_active, m_index,
                   m_errors, m_result, workerv, ret, aborted, histv>>

\* -------------------------------------------------------------- the workers
\* worker::waitForWork, under the shared lock: the predicate is evaluated and
\* the thread either goes on or blocks in wait(), atomically with respect to
\* the sections of the caller that hold the exclusive lock.
waitForWork(w) ==
    /\ pc[w] = "check" /\ ~aborted
    /\ pc' = [pc EXCEPT ![w] =
                IF ~busy[w] /\ m_status # "TERMINATING" THEN "blocked" ELSE "l186"]
    /\ UNCHANGED <<config, poolv, busy, it, i, task, err_p, callerv, aborted,
                   histv>>

\* condition_variable::wait may return without a notification.
spurious_wakeup(w) ==
    /\ pc[w] = "blocked" /\ ~aborted
    /\ pc' = [pc EXCEPT ![w] = "check"]
    /\ UNCHANGED <<config, poolv, busy, it, i, task, err_p, callerv, aborted,
                   histv>>

\* worker_mysql::doWork, lines 252 and 254, on the count of registrations of
\* the calling thread with the MySQL client library.
mysql_thread_init(r) == r + 1
mysql_thread_end_skipped(r) == r
mysql_thread_end(r) == r - 1

\* The first position of doWork: worker_sq claims an index, worker_mq tests
\* its cursor.
doWork_entry == IF strategy = "MultiQueue" THEN "test" ELSE "claim"

\* worker::loop, lines 186-188: leave on TERMINATING, else enter doWork
\* (worker_mysql::doWork registers the thread first, line 252).
loop_enter(w) ==
    /\ pc[w] = "l186" /\ ~aborted
    /\ IF m_status = "TERMINATING"
       THEN /\ pc' = [pc EXCEPT ![w] =
                        IF m_errorHandling = "NONE" THEN "exited" ELSE "caught"]
            /\ err_p' = [err_p EXCEPT ![w] = NoError]
            /\ UNCHANGED registered
       ELSE /\ pc' = [pc EXCEPT ![w] = doWork_entry]
            /\ registered' = [registered EXCEPT ![w] =
                                IF strategy = "MySQL"
                                THEN mysql_thread_init(@) ELSE @]
            /\ UNCHANGED err_p
    /\ UNCHANGED <<config, poolv, busy, it, i, task, callerv, aborted,
                   armedLen, failed, thrown, ran, decs, zeros, zwl, setter,
                   nbad>>

\* worker_sq::doWork, lines 237 and 241: i = pool->m_index++
sq_claim(w) ==
    /\ i' = [i EXCEPT ![w] = m_index]
    /\ m_index' = m_index + 1

doWork_claim(w) ==
    /\ pc[w] = "claim" /\ ~aborted
    /\ sq_claim(w)
    /\ pc' = [pc EXCEPT ![w] = "test"]
    /\ UNCHANGED <<config, m_status, m_workload, m_dirty, m_active, m_errors,
                   m_result, promises, busy, it, task, err_p, callerv, aborted,
                   histv>>

\* The loop conditions of worker_sq::doWork (238) and worker_mq::doWork (216)
sq_continue(w) == i[w] < Len(m_workload) /\ m_status = "PROCESSING"
mq_continue(w) == it[w] < Len(m_workload) /\ m_status = "PROCESSING"

\* worker_mq::doWork, line 219: it += pool->m_size
mq_advance(w) == it[w] + m_size

\* worker_sq::doWork line 238 / worker_mq::doWork lines 216-219: the loop
\* condition, then either the call of the task begins or doWork returns
\* (worker_mysql::doWork then unregisters the thread, line 254).
doWork_test(w) ==
    /\ pc[w] = "test" /\ ~aborted
    /\ IF strategy = "MultiQueue"
       THEN IF mq_continue(w)
            THEN /\ i' = [i EXCEPT ![w] = it[w]]
                 /\ it' = [it EXCEPT ![w] = mq_advance(w)]
                 /\ task' = [task EXCEPT ![w] = m_workload[it[w] + 1]]
                 /\ pc' = [pc EXCEPT ![w] = "run"]
            ELSE /\ pc' = [pc EXCEPT ![w] = "dec"]
                 /\ UNCHANGED <<i, it, task>>
       ELSE IF sq_continue(w)
            THEN /\ task' = [task EXCEPT ![w] = m_workload[i[w] + 1]]
                 /\ pc' = [pc EXCEPT ![w] = "run"]
                 /\ UNCHANGED <<i, it>>
            ELSE /\ pc' = [pc EXCEPT ![w] = "dec"]
                 /\ i' = [i EXCEPT ![w] = 0]
                 /\ UNCHANGED <<it, task>>
    /\ registered' = [registered EXCEPT ![w] =
                        IF strategy = "MySQL" /\ pc'[w] = "dec"
                        THEN mysql_thread_end(@) ELSE @]
    /\ UNCHANGED <<config, poolv, busy, err_p, callerv, aborted,
                   armedLen, failed, thrown, ran, decs, zeros, zwl, setter,
                   nbad>>

\* The call of the task ends: it returns, and the loop goes on, or it throws.
doWork_run(w) ==
    /\ pc[w] = "run" /\ ~aborted
    /\ IF task[w] = "ok"
       THEN /\ pc' = [pc EXCEPT ![w] = doWork_entry]
            /\ ran' = [ran EXCEPT ![w] = Append(@, i[w])]
            /\ UNCHANGED <<err_p, aborted, failed, thrown>>
       ELSE /\ throws(w, <<"task", m_result, i[w]>>)
            /\ failed' = TRUE
            /\ thrown' = thrown \cup {i[w]}
            /\ UNCHANGED ran
    /\ i' = [i EXCEPT ![w] = 0]
    /\ task' = [task EXCEPT ![w] = "ok"]
    /\ UNCHANGED <<config, poolv, busy, it, callerv,
                   armedLen, decs, zeros, zwl, setter, registered, nbad>>

\* worker::loop, lines 189-191: busy = false; remaning = --m_active
loop_dec(w) ==
    /\ pc[w] = "dec" /\ ~aborted
    /\ busy' = [busy EXCEPT ![w] = FALSE]
    /\ m_active' = m_active - 1
    /\ pc' = [pc EXCEPT ![w] = IF m_active - 1 = 0 THEN "clear" ELSE "check"]
    /\ decs' = [decs EXCEPT ![w] = @ + 1]
    /\ zeros' = IF m_active - 1 = 0 THEN zeros + 1 ELSE zeros
    /\ zwl' = [zwl EXCEPT ![w] = IF m_active - 1 = 0 THEN m_result ELSE @]
    /\ UNCHANGED <<config, m_status, m_workload, m_dirty, m_index, m_errors,
                   m_result, promises, it, i, task, err_p, callerv, aborted,
                   armedLen, failed, thrown, ran, setter, registered,
                   nbad>>

\* worker::loop, lines 193-194
loop_clear(w) ==
    /\ pc[w] = "clear" /\ ~aborted
    /\ IF m_clearMode = "UPPON_COMPLETION"
       THEN /\ m_dirty' = clearWorkload[1]
            /\ m_workload' = clearWorkload[2]
       ELSE UNCHANGED <<m_dirty, m_workload>>
    /\ pc' = [pc EXCEPT ![w] = "ready"]
    /\ UNCHANGED <<config, m_status, m_active, m_index, m_errors, m_result,
                   promises, busy, it, i, task, err_p, callerv, aborted, histv>>

\* worker::loop, lines 195-197 and 202: the status the zeroing worker writes
loop_status == "READY"

loop_ready(w) ==
    /\ pc[w] = "ready" /\ ~aborted
    /\ pc' = [pc EXCEPT ![w] = IF m_status = "ERROR" THEN "set_exception"
                                ELSE "set_value"]
    /\ m_status' = loop_status
    /\ UNCHANGED <<config, m_workload, m_dirty, m_active, m_index, m_errors,
                   m_result, promises, busy, it, i, task, err_p, callerv,
                   aborted, histv>>

\* worker::loop, lines 198 and 203: m_result.set_exception / set_value.  On a
\* promise whose shared state is already ready both throw future_error.
loop_resolve(w) ==
    /\ pc[w] \in {"set_value", "set_exception"} /\ ~aborted
    /\ IF promises[m_result] = "pending"
       THEN /\ promises' = [promises EXCEPT ![m_result] =
                               IF pc[w] = "set_value" THEN "value" ELSE "exception"]
            /\ setter' = [setter EXCEPT ![m_result] = zwl[w]]
            /\ pc' = [pc EXCEPT ![w] = "check"]
            /\ UNCHANGED <<err_p, aborted>>
       ELSE /\ throws(w, <<"future_error", m_result, 0>>)
            /\ UNCHANGED <<promises, setter>>
    /\ UNCHANGED <<config, m_status, m_workload, m_dirty, m_active, m_index,
                   m_errors, m_result, busy, it, i, task, callerv,
                   armedLen, failed, thrown, ran, decs, zeros, zwl, registered,
                   nbad>>

\* worker::loop_wrapper, lines 142-155: IGNORE restarts the loop unless the
\* pool is TERMINATING; TERMINATE records the exception, if there is one.
loop_wrapper_caught(w) ==
    /\ pc[w] = "caught" /\ ~aborted
    /\ IF m_errorHandling = "IGNORE"
       THEN /\ pc' = [pc EXCEPT ![w] =
                        IF m_status = "TERMINATING" THEN "exited" ELSE "check"]
            /\ UNCHANGED m_errors
       ELSE /\ pc' = [pc EXCEPT ![w] = "terminate"]
            /\ m_errors' = IF err_p[w] # NoError THEN Append(m_errors, err_p[w])
                           ELSE m_errors
    /\ err_p' = [err_p EXCEPT ![w] = NoError]
    /\ UNCHANGED <<config, m_status, m_workload, m_dirty, m_active, m_index,
                   m_result, promises, busy, it, i, task, callerv,
                   aborted, histv>>

\* worker::loop_wrapper reporting the failure as status ERROR.
loop_wrapper_error(w) ==
    /\ pc[w] = "terminate" /\ ~aborted
    /\ m_status' = "ERROR"
    /\ pc' = [pc EXCEPT ![w] = "check"]
    /\ UNCHANGED <<config, m_workload, m_dirty, m_active, m_index, m_errors,
                   m_result, promises, busy, it, i, task, err_p, callerv,
                   aborted, histv>>

\* worker::loop_wrapper, lines 168-171 (reached under TERMINATE only)
loop_wrapper_terminate(w) ==
    /\ pc[w] = "terminate" /\ ~aborted
    /\ m_status' = "TERMINATING"
    /\ pc' = [pc EXCEPT ![w] = "exited"]
    /\ UNCHANGED <<config, m_workload, m_dirty, m_active, m_index, m_errors,
                   m_result, promises, busy, it, i, task, err_p, callerv,
                   aborted, histv>>

\* ------------------------------------------------------------ specification
Workloads == UNION {[1 .. n -> TaskKinds] : n \in 0 .. MaxTasks}

Next ==
    \/ \E t \in TaskKinds : operator_append(t)
    \/ \E wk \in Workloads : processWorkload_arg(wk)
    \/ processWorkload_check
    \/ processWorkload_arm
    \/ processWorkload_wake
    \/ destructor
    \/ join
    \/ \E w \in Workers : waitForWork(w)
    \/ \E w \in Workers : spurious_wakeup(w)
    \/ \E w \in Workers : loop_enter(w)
    \/ \E w \in Workers : doWork_claim(w)
    \/ \E w \in Workers : doWork_test(w)
    \/ \E w \in Workers : doWork_run(w)
    \/ \E w \in Workers : loop_dec(w)
    \/ \E w \in Workers : loop_clear(w)
    \/ \E w \in Workers : loop_ready(w)
    \/ \E w \in Workers : loop_resolve(w)
    \/ \E w \in Workers : loop_wrapper_caught(w)
    \/ \E w \in Workers : loop_wrapper_terminate(w)

Spec == Init /\ [][Next]_vars

\* The steps of a pool of MultiQueue workers: all of Next but the claim of an
\* index, which only worker_sq::doWork makes.
NextMultiQueue ==
    \/ \E t \in TaskKinds : operator_append(t)
    \/ \E wk \in Workloads : processWorkload_arg(wk)
    \/ processWorkload_check
    \/ processWorkload_arm
    \/ processWorkload_wake
    \/ destructor
    \/ join
    \/ \E w \in Workers : waitForWork(w)
    \/ \E w \in Workers : spurious_wakeup(w)
    \/ \E w \in Workers : loop_enter(w)
    \/ \E w \in Workers : doWork_test(w)
    \/ \E w \in Workers : doWork_run(w)
    \/ \E w \in Workers : loop_dec(w)
    \/ \E w \in Workers : loop_clear(w)
    \/ \E w \in Workers : loop_ready(w)
    \/ \E w \in Workers : loop_resolve(w)
    \/ \E w \in Workers : loop_wrapper_caught(w)
    \/ \E w \in Workers : loop_wrapper_terminate(w)

SpecTerminate == InitTerminate /\ [][NextMultiQueue]_vars

\* ------------------------------------------------------------------ claims
\* The pool is being or has been destroyed.
Destroyed == cpc \in {"joining", "destroyed"}

\* How many times the task at index idx of the current workload has returned.
Count(idx) ==
    Cardinality({x \in {<<w, k>> : w \in Workers, k \in 1 .. MaxTasks} :
                    x[2] \in DOMAIN ran[x[1]] /\ ran[x[1]][x[2]] = idx})

\* The task at idx has returned or has thrown.
Accounted(idx) == Count(idx) >= 1 \/ idx \in thrown

\* A worker resolved promise p.
Resolved(p) == promises[p] \in {"value", "exception"}

\* Worker w is inside doWork.
InDoWork(w) == pc[w] \in {"claim", "test", "run"}

\* No worker will take another step unless the caller acts.
WorkersAtRest == \A w \in Workers : pc[w] \in {"blocked", "exited"}

\* C1: SingleQueue, no failing task, no destruction: once the completion
\* handle of the current workload is resolved, every index of that workload
\* has been executed exactly once.
C1_ExactlyOnceWhenResolved ==
    (/\ strategy = "SingleQueue" /\ ~failed /\ ~Destroyed
     /\ m_result >= 1 /\ Resolved(m_result))
    => \A idx \in 0 .. (armedLen - 1) : Count(idx) = 1

\* The indices worker w owns under MultiQueue: w, w + N, w + 2N, ... below M.
StrideLen(w) ==
    IF w >= armedLen THEN 0 ELSE ((armedLen - 1 - w) \div m_size) + 1
Stride(w) == [k \in 1 .. StrideLen(w) |-> w + (k - 1) * m_size]
IsPrefix(s, t) == Len(s) <= Len(t) /\ \A k \in 1 .. Len(s) : s[k] = t[k]

\* C2: MultiQueue, no failing task, no destruction: what worker w has
\* executed of the current workload is, in order, a prefix of w, w + N,
\* w + 2N, ... (< M), and all of it once w has returned from doWork; a worker
\* with id >= M has executed nothing.
C2_MultiQueueStride ==
    (strategy = "MultiQueue" /\ ~failed /\ ~Destroyed)
    => \A w \in Workers :
          /\ IsPrefix(ran[w], Stride(w))
          /\ decs[w] >= 1 => ran[w] = Stride(w)
          /\ w >= armedLen => ran[w] = <<>>

\* C3: the completion handle of the current workload is resolved only after
\* every task of that workload has returned or thrown.
C3_ResolvedAfterAllTasks ==
    (~Destroyed /\ m_result >= 1 /\ Resolved(m_result))
    => \A idx \in 0 .. (armedLen - 1) : Accounted(idx)

\* C4: a completion signal is resolved only by the worker whose decrement
\* zeroed the counter of that same workload, and set_value/set_exception is
\* never called on a signal that is already resolved.
C4_SingleShot ==
    /\ \A p \in 1 .. m_result : Resolved(p) => setter[p] = p
    /\ \A w \in Workers : err_p[w][1] # "future_error"

\* C5 (the part a finite run refutes): with no failing task and no
\* destruction, the completion handle of an armed workload is never resolved
\* with anything but success.
C5_ResolvedOnlyWithSuccess ==
    (~failed /\ ~Destroyed)
    => \A p \in 1 .. m_result : promises[p] \in {"pending", "value"}

\* C6: the active-worker counter never goes below zero, each worker
\* decrements it at most once per workload, it reaches zero at most once per
\* workload, and no worker is inside doWork when it is zero.
C6_ActiveCounter ==
    /\ m_active >= 0 /\ m_active <= m_size
    /\ \A w \in Workers : decs[w] <= 1
    /\ zeros <= 1
    /\ m_active = 0 => \A w \in Workers : ~InDoWork(w)

\* C7: once status is TERMINATING, no step changes it.
C7_TerminatingIsTerminal ==
    [][m_status = "TERMINATING" => m_status' = "TERMINATING"]_vars

\* C8: with no failing task, destruction never waits for a worker that can
\* no longer leave waitForWork: the destructor is never joining while every
\* worker still alive is blocked in wait() with status not TERMINATING (its
\* predicate stays false, and nobody is left to notify it).
C8_DestructionCompletes ==
    ~(/\ ~failed /\ cpc = "joining" /\ WorkersAtRest
      /\ m_status # "TERMINATING"
      /\ \E w \in Workers : pc[w] = "blocked" /\ ~busy[w])

\* C9: TERMINATE, one task of the current workload has thrown: once the
\* workers have come to rest, the completion handle of that workload is
\* resolved with failure.
C9_FailureResolvesHandle ==
    (/\ m_errorHandling = "TERMINATE" /\ thrown # {} /\ ~Destroyed
     /\ cpc = "idle" /\ WorkersAtRest)
    => promises[m_result] = "exception"

\* C10: TERMINATE, after a task has thrown: no call of processWorkload
\* passes its check (line 45) again and no workload is armed again (the
\* workload of the failure stays the current one), and once the failing
\* worker has left loop_wrapper the failure is in the error list and status
\* is TERMINATING.  It holds for the pools of Spec, of at most MaxThreads
\* workers, and is checked under SpecTerminate, a pool of one worker more.
C10_RejectsAfterFailure ==
    (m_errorHandling = "TERMINATE" /\ failed)
    => /\ cpc # "p47"
       /\ thrown # {}
       /\ (\A w \in Workers : pc[w] \notin {"caught", "terminate"})
          => /\ m_status = "TERMINATING"
             /\ \E k \in 1 .. Len(m_errors) : m_errors[k][1] = "task"

\* C11: IGNORE, SingleQueue or MultiQueue, a task of the current workload has
\* thrown: no worker decrements the counter twice for that workload, and once
\* its completion handle is resolved it is resolved with success, every
\* worker has decremented once, and each task that did not throw has been
\* executed exactly once.
C11_IgnoreCompletes ==
    (/\ m_errorHandling = "IGNORE"
     /\ strategy \in {"SingleQueue", "MultiQueue"}
     /\ ~Destroyed /\ thrown # {})
    => /\ \A w \in Workers : decs[w] <= 1
       /\ Resolved(m_result)
          => /\ promises[m_result] = "value"
             /\ \A w \in Workers : decs[w] = 1
             /\ \A idx \in (0 .. (armedLen - 1)) \ thrown : Count(idx) = 1

\* C12: IGNORE: once the completion handle of the current workload is
\* resolved, the error list holds a record for each task of that workload
\* that threw.
C12_IgnoreRecordsErrors ==
    (/\ m_errorHandling = "IGNORE" /\ ~Destroyed
     /\ m_result >= 1 /\ Resolved(m_result))
    => \A idx \in thrown :
          \E k \in 1 .. Len(m_errors) : m_errors[k] = <<"task", m_result, idx>>

\* C13: operator<< called while status is PROCESSING or ERROR throws, and
\* leaves the workload, the dirty flag, the active counter, the shared index,
\* the cursors of the workers and the status as they were, in both clear
\* modes.
C13_AppendRejectedWhileProcessing ==
    [][\A t \in TaskKinds :
          (operator_append(t) /\ m_status \in {"PROCESSING", "ERROR"})
          => /\ ret' = <<"throw", 0>>
             /\ UNCHANGED <<m_workload, m_dirty, m_active, m_index, it,
                            m_status>>]_vars

\* C13 witness: the caller's append has thrown while a worker is executing a
\* task of the workload in flight.
C13_Witness ==
    /\ ret = <<"throw", 0>> /\ cpc = "idle"
    /\ m_status = "PROCESSING" /\ m_workload # <<>> /\ m_dirty
    /\ \E w \in Workers : pc[w] = "run"

\* C14: AT_NEXT_WORKLOAD, status READY: an append that finds the dirty flag
\* set (a workload has been processed) leaves exactly the new task in the
\* workload and the flag cleared; an append that finds it clear adds the task
\* at the end of the workload and leaves the flag clear.
C14_AppendAfterCompletion ==
    [][\A t \in TaskKinds :
          (/\ operator_append(t)
           /\ m_clearMode = "AT_NEXT_WORKLOAD" /\ m_status = "READY")
          => /\ ret' = <<"appended", 0>>
             /\ ~m_dirty'
             /\ m_workload' = IF m_dirty THEN <<t>> ELSE Append(m_workload, t)]_vars

\* C14 witness: after a workload of two tasks was processed to completion,
\* the caller has appended a throwing task and then one that returns: the
\* workload is those two, and the flag is clear.
C14_Witness ==
    /\ m_clearMode = "AT_NEXT_WORKLOAD" /\ m_status = "READY"
    /\ m_result = 1 /\ promises[1] = "value" /\ armedLen = 2 /\ ~failed
    /\ ret = <<"appended", 0>> /\ cpc = "idle"
    /\ m_workload = <<"bad", "ok">> /\ ~m_dirty

\* C15: UPPON_COMPLETION: in the step that resolves the completion handle of
\* the current workload, the workload is empty and the dirty flag is false.
C15_EmptyWhenResolved ==
    [][(/\ m_clearMode = "UPPON_COMPLETION"
        /\ m_result' = m_result
        /\ promises[m_result] = "pending"
        /\ promises'[m_result] \in {"value", "exception"})
       => (m_workload' = <<>> /\ ~m_dirty')]_vars

\* The steps of processWorkload that return an empty handle leave these as
\* they were.
NoOp ==
    /\ ret' = <<"empty", 0>>
    /\ cpc' = "idle"
    /\ UNCHANGED <<m_status, m_active, m_index, busy, it, m_result, promises,
                   pc, ran>>

\* C16: a call of processWorkload that finds status other than READY, or
\* status READY and nothing to process, returns an empty handle at once and
\* leaves status, the active counter, the shared index, the busy flags, the
\* completion signal and the position of every worker as they were.
C16_NoOpProcessWorkload ==
    [][/\ (processWorkload_check /\ (m_status # "READY" \/ m_workload' = <<>>))
          => NoOp
       /\ \A wk \in Workloads :
             (processWorkload_arg(wk) /\ m_status # "READY") => NoOp]_vars

\* C16 witness: the caller's processWorkload has returned an empty handle
\* while a worker is executing a task of the workload in flight.
C16_Witness ==
    /\ ret = <<"empty", 0>> /\ cpc = "idle"
    /\ m_status = "PROCESSING" /\ m_active = m_size
    /\ \E w \in Workers : pc[w] = "run"

\* C17: a worker between the decrement that zeroed the counter and the
\* resolution of the signal is the zeroing worker of the current workload
\* (no workload has been armed since), and while a task is being executed
\* the signal of every earlier workload has been resolved by a worker.
C17_NoOverlap ==
    ~Destroyed
    => \A w \in Workers :
          /\ pc[w] \in {"clear", "ready", "set_value", "set_exception"}
             => zwl[w] = m_result
          /\ pc[w] = "run" => \A p \in 1 .. (m_result - 1) : Resolved(p)

\* C18: no step takes tasks out of the workload (clears it, or replaces it by
\* one that does not extend it) while a worker is executing a task.
C18_NoClearUnderRunningTask ==
    [][~IsPrefix(m_workload, m_workload')
       => \A w \in Workers : pc[w] # "run"]_vars

\* C19: MySQL strategy, no failing task: a worker's thread is registered
\* exactly while it is inside doWork (so every task runs registered, and the
\* thread is unregistered before busy is cleared and the counter
\* decremented), and its count of registrations is never other than 0 or 1.
C19_MySQLRegistration ==
    (strategy = "MySQL" /\ ~failed)
    => \A w \in Workers :
          /\ registered[w] \in {0, 1}
          /\ (registered[w] = 1) <=> InDoWork(w)

\* C19 witness: a MySQL worker has gone through doWork once, has decremented
\* and waits, unregistered, while another executes a task, registered.
C19_Witness ==
    /\ strategy = "MySQL" /\ ~failed /\ m_size = 2
    /\ \E w \in Workers :
          /\ pc[w] = "blocked" /\ decs[w] = 1 /\ registered[w] = 0
          /\ \E v \in Workers : pc[v] = "run" /\ registered[v] = 1

\* C20: status is never ERROR, no worker is about to call set_exception, and
\* no completion signal has been resolved with a failure.
C20_NeverError ==
    /\ m_status # "ERROR"
    /\ \A w \in Workers : pc[w] # "set_exception"
    /\ \A p \in DOMAIN promises : promises[p] # "exception"

\* C20 witness: a task of the current workload has thrown and a worker has
\* resolved the signal of that workload, with success.
C20_Witness ==
    /\ thrown # {} /\ m_result >= 1
    /\ promises[m_result] = "value" /\ setter[m_result] = m_result
    /\ m_status = "READY"

====
